---- MODULE Spec2Model ----
(***************************************************************************)
(* Model of App.py (SM Battery Simulation Analysis dashboard).             *)
(*                                                                         *)
(* The KPI function calculate_kpis_from_data(df, station_type,             *)
(* battery_type) is modelled as one action over a bounded set of data      *)
(* frames.  Strings the code inspects (column names, Time cells,           *)
(* 'Batteries Taken' cells) are sequences of one-character strings, so     *)
(* that strip / lower / substring / split / int() are computed.  Numbers   *)
(* that the code holds as floats are exact rationals [n, d] in lowest      *)
(* terms; a value returned through round(x, 1) is a whole number of        *)
(* tenths.                                                                 *)
(*                                                                         *)
(* main() is modelled as a Streamlit session: every user interaction and   *)
(* every st.rerun() runs the script from the top against the widget state  *)
(* and st.session_state; simulate_backend_processing advances one step per *)
(* action, so that an interaction can interrupt it.                        *)
(***************************************************************************)
EXTENDS Integers, Sequences, FiniteSets, TLC

VARIABLES
    df,            \* the data frame handed to calculate_kpis_from_data
    station_type,  \* its second argument
    battery_type,  \* its third argument
    pc,            \* "ready" before the call, "done" after it
    outcome,       \* "none" | "returned" | "raised"
    error,         \* the exception raised, "" when none
    locals,        \* the local variables at the return statement (line 332)
    result,        \* the dictionary returned
    station_select,  \* widget state of the selectbox with key "station_select"
    battery_select,  \* widget state of the selectbox with key "battery_select"
    display_mode,    \* widget state of the "Display Mode:" radio
    simulation_run,  \* st.session_state.simulation_run
    current_config,  \* st.session_state.current_config
    status_text,     \* the texts simulate_backend_processing has put in status_text
    progress_bar,    \* the values it has put in progress_bar
    page             \* what the latest script run of main() rendered

\* the variables of one call of calculate_kpis_from_data
call == <<df, station_type, battery_type, outcome, error, locals, result>>

\* the variables of a session of main()
session ==
    <<station_select, battery_select, display_mode, simulation_run,
      current_config, status_text, progress_bar, page>>

vars == <<call, pc, session>>

----------------------------------------------------------------------------
(* Python str operations, on sequences of characters.                      *)

IsSpace(c) == c \in {" ", "\t", "\n"}

RECURSIVE LStrip(_)
LStrip(s) == IF s # <<>> /\ IsSpace(Head(s)) THEN LStrip(Tail(s)) ELSE s

RECURSIVE RStrip(_)
RStrip(s) ==
    IF s # <<>> /\ IsSpace(s[Len(s)]) THEN RStrip(SubSeq(s, 1, Len(s) - 1)) ELSE s

\* str.strip()
Strip(s) == RStrip(LStrip(s))

UpperChars == <<"A","B","C","D","E","F","G","H","I","J","K","L","M",
                "N","O","P","Q","R","S","T","U","V","W","X","Y","Z">>

LowerChars == <<"a","b","c","d","e","f","g","h","i","j","k","l","m",
                "n","o","p","q","r","s","t","u","v","w","x","y","z">>

ToLower == [c \in {UpperChars[i] : i \in 1..Len(UpperChars)} |->
               LowerChars[CHOOSE i \in 1..Len(UpperChars) : UpperChars[i] = c]]

UpperSet == DOMAIN ToLower

LowerChar(c) == IF c \in UpperSet THEN ToLower[c] ELSE c

\* str.lower()
Lower(s) == [i \in 1..Len(s) |-> LowerChar(s[i])]

\* sub in s
Contains(s, sub) ==
    \E i \in 0..(Len(s) - Len(sub)) : SubSeq(s, i + 1, i + Len(sub)) = sub

\* s.startswith(p)
StartsWith(s, p) == Len(s) >= Len(p) /\ SubSeq(s, 1, Len(p)) = p

\* s.split(sep) for a one-character separator
RECURSIVE Split(_, _)
Split(s, sep) ==
    LET at == {i \in 1..Len(s) : s[i] = sep}
    IN  IF at = {} THEN <<s>>
        ELSE LET i == CHOOSE j \in at : \A k \in at : j <= k
             IN  <<SubSeq(s, 1, i - 1)>> \o Split(SubSeq(s, i + 1, Len(s)), sep)

DigitChars == <<"0","1","2","3","4","5","6","7","8","9">>

DigitOf == [c \in {DigitChars[i] : i \in 1..Len(DigitChars)} |->
               (CHOOSE i \in 1..Len(DigitChars) : DigitChars[i] = c) - 1]

DigitSet == DOMAIN DigitOf

IsDigit(c) == c \in DigitSet

DigitVal(c) == DigitOf[c]

RECURSIVE DigitsVal(_)
DigitsVal(s) ==
    IF s = <<>> THEN 0
    ELSE 10 * DigitsVal(SubSeq(s, 1, Len(s) - 1)) + DigitVal(s[Len(s)])

\* int(s) for a str: surrounding whitespace and one sign are accepted, then
\* one or more decimal digits; anything else is a ValueError (ok = FALSE).
ParseInt(s) ==
    LET t      == Strip(s)
        signed == t # <<>> /\ Head(t) \in {"+", "-"}
        digits == IF signed THEN Tail(t) ELSE t
        ok     == digits # <<>> /\ \A i \in 1..Len(digits) : IsDigit(digits[i])
    IN  [ok |-> ok,
         v  |-> IF ~ok THEN 0
                ELSE IF signed /\ Head(t) = "-" THEN 0 - DigitsVal(digits)
                ELSE DigitsVal(digits)]

----------------------------------------------------------------------------
(* Floats as exact rationals, and round(x, 1).                             *)

RECURSIVE GCD(_, _)
GCD(a, b) == IF b = 0 THEN a ELSE GCD(b, a % b)

Abs(x) == IF x < 0 THEN 0 - x ELSE x

\* the rational n/d (d # 0) in lowest terms with a positive denominator
Rat(n, d) ==
    IF d = 1 THEN [nan |-> FALSE, n |-> n, d |-> 1]
    ELSE LET g == GCD(Abs(n), Abs(d))
             s == IF d < 0 THEN 0 - 1 ELSE 1
         IN  [nan |-> FALSE, n |-> (s * n) \div g, d |-> (s * d) \div g]

\* float('nan')
NaN == [nan |-> TRUE, n |-> 0, d |-> 1]

\* a value rounded to one decimal, held as a whole number of tenths
Tenths(t) == [nan |-> FALSE, tenths |-> t]

NaNTenths == [nan |-> TRUE, tenths |-> 0]

\* round(x, 1): the nearest tenth.  At an exact decimal tie that a binary
\* float represents exactly (x.25, x.75) the even neighbour is returned; at
\* a tie it cannot represent (x.05, x.15, ...) the stored float lies on one
\* side of the tie, and either neighbour may be returned.
RoundChoices(x) ==
    IF x.nan THEN {NaNTenths}
    ELSE LET t   == (10 * x.n) \div x.d
             rem == 10 * x.n - t * x.d
         IN  IF 2 * rem < x.d THEN {Tenths(t)}
             ELSE IF 2 * rem > x.d THEN {Tenths(t + 1)}
             ELSE IF x.d = 4 THEN {Tenths(IF t % 2 = 0 THEN t ELSE t + 1)}
             ELSE {Tenths(t), Tenths(t + 1)}

----------------------------------------------------------------------------
(* The two literal tables of calculate_kpis_from_data.                     *)

Ind1 == "1 Independent Station (15 docks, 14 batteries)"
Ind2 == "2 Independent Stations (30 docks, 28 batteries)"
Ind3 == "3 Independent Stations (45 docks, 42 batteries)"
Clu2 == "2 Clustered Stations (30 docks, 29 batteries)"
Clu3 == "3 Clustered Stations (45 docks, 44 batteries)"

known_totals ==
    [s \in {Ind1, Ind2, Ind3, Clu2, Clu3} |->
        CASE s = Ind1 -> [b \in {"1 BP", "2 BP", "3 BP", "3 BP Mix"} |->
                 CASE b = "1 BP" -> 154 [] b = "2 BP" -> 77
                   [] b = "3 BP" -> 51  [] b = "3 BP Mix" -> 121]
          [] s = Ind2 -> [b \in {"1 BP", "2 BP", "3 BP", "3 BP Mix"} |->
                 CASE b = "1 BP" -> 308 [] b = "2 BP" -> 154
                   [] b = "3 BP" -> 102 [] b = "3 BP Mix" -> 242]
          [] s = Ind3 -> [b \in {"1 BP", "2 BP", "3 BP", "3 BP Mix"} |->
                 CASE b = "1 BP" -> 462 [] b = "2 BP" -> 231
                   [] b = "3 BP" -> 153 [] b = "3 BP Mix" -> 363]
          [] s = Clu2 -> [b \in {"1 BP", "2 BP", "3 BP", "3 BP Mix"} |->
                 CASE b = "1 BP" -> 307 [] b = "2 BP" -> 152
                   [] b = "3 BP" -> 105 [] b = "3 BP Mix" -> 242]
          [] s = Clu3 -> [b \in {"1 BP", "2 BP", "3 BP", "3 BP Mix"} |->
                 CASE b = "1 BP" -> 457 [] b = "2 BP" -> 231
                   [] b = "3 BP" -> 155 [] b = "3 BP Mix" -> 368]]

known_fha ==
    [s \in {Ind1, Ind2, Ind3, Clu2, Clu3} |->
        CASE s = Ind1 -> [b \in {"1 BP", "2 BP", "3 BP", "3 BP Mix"} |->
                 CASE b = "1 BP" -> 14 [] b = "2 BP" -> 7
                   [] b = "3 BP" -> 4  [] b = "3 BP Mix" -> 11]
          [] s = Ind2 -> [b \in {"1 BP", "2 BP", "3 BP", "3 BP Mix"} |->
                 CASE b = "1 BP" -> 28 [] b = "2 BP" -> 14
                   [] b = "3 BP" -> 8  [] b = "3 BP Mix" -> 22]
          [] s = Ind3 -> [b \in {"1 BP", "2 BP", "3 BP", "3 BP Mix"} |->
                 CASE b = "1 BP" -> 42 [] b = "2 BP" -> 21
                   [] b = "3 BP" -> 12 [] b = "3 BP Mix" -> 33]
          [] s = Clu2 -> [b \in {"1 BP", "2 BP", "3 BP", "3 BP Mix"} |->
                 CASE b = "1 BP" -> 29 [] b = "2 BP" -> 14
                   [] b = "3 BP" -> 9  [] b = "3 BP Mix" -> 23]
          [] s = Clu3 -> [b \in {"1 BP", "2 BP", "3 BP", "3 BP Mix"} |->
                 CASE b = "1 BP" -> 44 [] b = "2 BP" -> 22
                   [] b = "3 BP" -> 14 [] b = "3 BP Mix" -> 35]]

----------------------------------------------------------------------------
(* Data frames.  A frame is None, or column names (as read from the CSV    *)
(* header, not yet stripped), one sequence of cells per column, and the    *)
(* number of rows.  A cell is a missing value, an integer or a str.        *)

NaCell == [k |-> "nan", n |-> 0, s |-> <<>>]

IntCell(v) == [k |-> "int", n |-> v, s |-> <<>>]

StrCell(t) == [k |-> "str", n |-> 0, s |-> t]

NoneFrame == [none |-> TRUE, columns |-> <<>>, data |-> <<>>, nrows |-> 0]

Frame(names, cols, n) ==
    [none |-> FALSE, columns |-> names, data |-> cols, nrows |-> n]

\* column names the code looks up (lines 258, 267, 324) and searches (242)
TimeName == <<"T","i","m","e">>
BPCountName == <<"B","P"," ","C","o","u","n","t">>
BatteriesTakenName == <<"B","a","t","t","e","r","i","e","s"," ","T","a","k","e","n">>
CustomersNeedle == <<"c","u","s","t","o","m","e","r","s">>
CustomersServedNeedle == <<"c","u","s","t","o","m","e","r","s"," ","s","e","r","v","e","d">>

\* header names of the modelled CSV files
BPCountPadded == <<" ","B","P"," ","C","o","u","n","t">>
CustomersServed == <<"C","u","s","t","o","m","e","r","s"," ","S","e","r","v","e","d">>
TotalCustomersPadded == <<"T","o","t","a","l"," ","C","U","S","T","O","M","E","R","S"," ">>
ServedName == <<"S","e","r","v","e","d">>

\* Time cells: the H:MM:SS strings of the logs, a string that starts like
\* hour 7 and cannot be parsed, and the missing value
T0700 == <<"7",":","0","0",":","0","0">>
T2300 == <<"2","3",":","0","0",":","0","0">>
T2330 == <<"2","3",":","3","0",":","0","0">>
T0015 == <<"0",":","1","5",":","0","0">>
TBad == <<"7",":","x","x">>
HourSevenPrefix == <<"7",":">>
DashSentinel == <<"-">>
BatteryToken == <<"B","1">>

----------------------------------------------------------------------------
(* pandas operations the function uses.                                    *)

\* df.empty: no rows or no columns
Empty(d) == d.nrows = 0 \/ Len(d.columns) = 0

\* df.columns = df.columns.str.strip()   (assigned in place, line 237)
StripColumns(d) ==
    [d EXCEPT !.columns = [i \in 1..Len(d.columns) |-> Strip(d.columns[i])]]

\* name in df.columns
HasColumn(d, name) == \E i \in 1..Len(d.columns) : d.columns[i] = name

\* df[name]
Column(d, name) ==
    d.data[CHOOSE i \in 1..Len(d.columns) : d.columns[i] = name]

IsNa(c) == c.k = "nan"

\* a column holding a str has dtype object; ints and missing values alone
\* make a numeric column
IsObject(col) == \E i \in 1..Len(col) : col[i].k = "str"

\* series.isna().all()
AllNa(col) == \A i \in 1..Len(col) : IsNa(col[i])

Values(col) == {col[i].n : i \in {j \in 1..Len(col) : col[j].k = "int"}}

\* series.max() and series.min() of a numeric column: missing values are
\* skipped, and the result is NaN when nothing is left
ColMax(col) ==
    IF Values(col) = {} THEN NaN
    ELSE Rat(CHOOSE v \in Values(col) : \A w \in Values(col) : w <= v, 1)

ColMin(col) ==
    IF Values(col) = {} THEN NaN
    ELSE Rat(CHOOSE v \in Values(col) : \A w \in Values(col) : v <= w, 1)

RECURSIVE ColSum(_)
ColSum(col) ==
    IF col = <<>> THEN 0
    ELSE (IF Head(col).k = "int" THEN Head(col).n ELSE 0) + ColSum(Tail(col))

ColCount(col) == Cardinality({i \in 1..Len(col) : col[i].k = "int"})

\* series.mean() of a numeric column
ColMean(col) ==
    IF ColCount(col) = 0 THEN NaN ELSE Rat(ColSum(col), ColCount(col))

\* the rows of a column selected by a boolean mask
Masked(col, mask) ==
    LET keep == {i \in 1..Len(col) : mask[i]}
        F[i \in 0..Len(col)] ==
            IF i = 0 THEN <<>>
            ELSE IF i \in keep THEN Append(F[i - 1], col[i]) ELSE F[i - 1]
    IN  F[Len(col)]

\* arithmetic on floats; NaN propagates, and every comparison with NaN is
\* False
RatSub(a, b) ==
    IF a.nan \/ b.nan THEN NaN ELSE Rat(a.n * b.d - b.n * a.d, a.d * b.d)

RatAdd(a, b) ==
    IF a.nan \/ b.nan THEN NaN ELSE Rat(a.n * b.d + b.n * a.d, a.d * b.d)

RatMul(a, b) == IF a.nan \/ b.nan THEN NaN ELSE Rat(a.n * b.n, a.d * b.d)

\* a / b for b # 0
RatDiv(a, b) == IF a.nan \/ b.nan THEN NaN ELSE Rat(a.n * b.d, a.d * b.n)

Positive(a) == ~a.nan /\ a.n > 0

Negative(a) == ~a.nan /\ a.n < 0

\* int(x) of a float that is not NaN: truncation towards zero
Trunc(a) == IF a.n >= 0 THEN a.n \div a.d ELSE 0 - ((0 - a.n) \div a.d)


----------------------------------------------------------------------------
(* calculate_kpis_from_data, section by section.  d is the frame after     *)
(* line 237 (column names stripped).                                       *)

\* station_type in table and battery_type in table[station_type]
InTable(tbl, st, bt) == st \in DOMAIN tbl /\ bt \in DOMAIN tbl[st]

\* Faulty variant: the loop without its break: the last matching column wins
customer_col_last_match(d) ==
    LET hit == {i \in 1..Len(d.columns) :
                   Contains(Lower(d.columns[i]), CustomersNeedle)}
    IN  IF hit # {}
        THEN d.columns[CHOOSE i \in hit : \A j \in hit : j <= i]
        ELSE d.columns[Len(d.columns)]

\* lines 239-247: the first column whose lower-cased name contains
\* 'customers served' or 'customers', else the last column
customer_col(d) ==
    LET hit == {i \in 1..Len(d.columns) :
                   LET lowered == Lower(d.columns[i])
                   IN  \/ Contains(lowered, CustomersServedNeedle)
                       \/ Contains(lowered, CustomersNeedle)}
    IN  IF hit # {}
        THEN d.columns[CHOOSE i \in hit : \A j \in hit : i <= j]
        ELSE d.columns[Len(d.columns)]

\* Faulty variant: the table is consulted only when the column holds nothing
total_customers_computed_first(d, cc, st, bt) ==
    LET col == Column(d, cc)
    IN  IF ~AllNa(col)
        THEN IF IsObject(col) THEN [str |-> TRUE, v |-> NaN]
             ELSE [str |-> FALSE, v |-> ColMax(col)]
        ELSE IF InTable(known_totals, st, bt)
        THEN [str |-> FALSE, v |-> Rat(known_totals[st][bt], 1)]
        ELSE [str |-> FALSE, v |-> Rat(d.nrows, 1)]

\* lines 249-255.  The maximum of an object column is a str (or max()
\* itself raises TypeError); str = TRUE stands for both, since a str total
\* makes line 314 raise TypeError.
total_customers(d, cc, st, bt) ==
    IF InTable(known_totals, st, bt)
    THEN [str |-> FALSE, v |-> Rat(known_totals[st][bt], 1)]
    ELSE LET col == Column(d, cc)
         IN  IF ~AllNa(col)
             THEN IF IsObject(col) THEN [str |-> TRUE, v |-> NaN]
                  ELSE [str |-> FALSE, v |-> ColMax(col)]
             ELSE [str |-> FALSE, v |-> Rat(d.nrows, 1)]

CellNumber(c) == IF c.k = "int" THEN Rat(c.n, 1) ELSE NaN

\* lines 258-260
initial_battery_count(d) ==
    IF HasColumn(d, BPCountName)
    THEN CellNumber(Column(d, BPCountName)[1]) ELSE Rat(14, 1)

min_battery_count(d) ==
    IF HasColumn(d, BPCountName)
    THEN ColMin(Column(d, BPCountName)) ELSE Rat(0, 1)

avg_battery_count(d) ==
    IF HasColumn(d, BPCountName)
    THEN ColMean(Column(d, BPCountName)) ELSE Rat(7, 1)

\* lines 262-279.  df['Time'].str raises AttributeError on a column that
\* holds no str, and max() - min() of str values raises TypeError; the bare
\* except turns both into len(df) // 16.  max() - min() of a selection
\* whose customer values are all missing is NaN, which is no exception.
first_hour_customers(d, cc, st, bt) ==
    IF InTable(known_fha, st, bt) THEN Rat(known_fha[st][bt], 1)
    ELSE IF HasColumn(d, TimeName)
    THEN LET time == Column(d, TimeName)
             mask == [i \in 1..d.nrows |->
                         /\ time[i].k = "str"
                         /\ StartsWith(time[i].s, HourSevenPrefix)]
             first_hour_data == Masked(Column(d, cc), mask)
         IN  IF ~IsObject(time) THEN Rat(d.nrows \div 16, 1)
             ELSE IF first_hour_data # <<>>
             THEN IF IsObject(first_hour_data) THEN Rat(d.nrows \div 16, 1)
                  ELSE RatSub(ColMax(first_hour_data), ColMin(first_hour_data))
             ELSE Rat(d.nrows \div 16, 1)
    ELSE Rat(d.nrows \div 16, 1)

\* lines 291-294: minutes of the day, ok = FALSE for the AttributeError of a
\* cell that is no str, the IndexError of fewer than three parts and the
\* ValueError of int()
time_to_minutes(c) ==
    LET parts   == Split(c.s, ":")
        hours   == ParseInt(parts[1])
        minutes == ParseInt(parts[2])
        seconds == ParseInt(parts[3])
    IN  IF c.k # "str" \/ Len(parts) < 3 THEN [ok |-> FALSE, v |-> NaN]
        ELSE IF ~(hours.ok /\ minutes.ok /\ seconds.ok)
        THEN [ok |-> FALSE, v |-> NaN]
        ELSE [ok |-> TRUE,
              v  |-> RatAdd(Rat(hours.v * 60 + minutes.v, 1), Rat(seconds.v, 60))]

\* Faulty variant: no correction for a log that crosses midnight
total_minutes_no_wrap(start_minutes, end_minutes) ==
    RatSub(end_minutes, start_minutes)

\* lines 299-302
total_minutes(start_minutes, end_minutes) ==
    LET t == RatSub(end_minutes, start_minutes)
    IN  IF Negative(t) THEN RatAdd(t, Rat(24 * 60, 1)) ELSE t

\* lines 285-297 and 310-311: the elapsed minutes, ok = FALSE when the
\* block is skipped or an exception leaves the defaults in place
elapsed(d) ==
    IF HasColumn(d, TimeName) /\ d.nrows > 1
    THEN LET time == Column(d, TimeName)
             start_minutes == time_to_minutes(time[1])
             end_minutes   == time_to_minutes(time[d.nrows])
         IN  IF start_minutes.ok /\ end_minutes.ok
             THEN [ok |-> TRUE, v |-> total_minutes(start_minutes.v, end_minutes.v)]
             ELSE [ok |-> FALSE, v |-> NaN]
    ELSE [ok |-> FALSE, v |-> NaN]

\* lines 282, 304 (el is elapsed(df))
simulation_duration(el) ==
    IF el.ok THEN RatDiv(el.v, Rat(60, 1)) ELSE Rat(16, 1)

\* Faulty variant: the interval taken from the duration in hours
avg_service_interval_hours(el, total) ==
    IF el.ok /\ Positive(total)
    THEN RatDiv(RatDiv(el.v, Rat(60, 1)), total) ELSE Rat(6, 1)

\* lines 283, 307-308 (total is a number here: a str total raises at 314)
avg_service_interval(el, total) ==
    IF el.ok /\ Positive(total) THEN RatDiv(el.v, total) ELSE Rat(6, 1)

\* Faulty variant: the estimate without its floor of 1
peak_hour_customers_unfloored(total) == Trunc(RatMul(total, Rat(15, 100)))

\* line 314: max(1, int(total_customers * 0.15))
peak_hour_customers(total) ==
    LET estimate == Trunc(RatMul(total, Rat(15, 100)))
    IN  IF estimate > 1 THEN estimate ELSE 1

\* Faulty variant: the share of batteries left instead of the share used
battery_utilization_remaining(initial, minimum) ==
    IF Positive(initial)
    THEN RatMul(RatDiv(minimum, initial), Rat(100, 1))
    ELSE Rat(85, 1)

\* lines 317-320
battery_utilization(initial, minimum) ==
    IF Positive(initial)
    THEN RatMul(RatDiv(RatSub(initial, minimum), initial), Rat(100, 1))
    ELSE Rat(85, 1)

\* Faulty variant: every row counted as a successful service
success_rate_all_rows(d, total) ==
    IF HasColumn(d, BatteriesTakenName)
    THEN IF Positive(total)
         THEN RatMul(RatDiv(Rat(d.nrows, 1), total), Rat(100, 1))
         ELSE Rat(197, 2)
    ELSE Rat(197, 2)

\* lines 323-330
success_rate(d, total) ==
    IF HasColumn(d, BatteriesTakenName)
    THEN LET taken == Column(d, BatteriesTakenName)
             successful_services ==
                 Cardinality({i \in 1..Len(taken) :
                                 ~(taken[i].k = "str" /\ taken[i].s = DashSentinel)})
         IN  IF Positive(total)
             THEN RatMul(RatDiv(Rat(successful_services, 1), total), Rat(100, 1))
             ELSE Rat(197, 2)
    ELSE Rat(197, 2)

\* Faulty variant: the empty-input result with the peak-hour floor of 1 applied
ZeroResultWithPeakFloor ==
    [total_customers      |-> 0,
     avg_battery_count    |-> Tenths(0),
     first_hour_customers |-> 0,
     battery_utilization  |-> Tenths(0),
     peak_hour_customers  |-> 1,
     avg_service_interval |-> Tenths(0),
     success_rate         |-> Tenths(0),
     simulation_duration  |-> Tenths(0)]

\* lines 157-166
ZeroResult ==
    [total_customers      |-> 0,
     avg_battery_count    |-> Tenths(0),
     first_hour_customers |-> 0,
     battery_utilization  |-> Tenths(0),
     peak_hour_customers  |-> 0,
     avg_service_interval |-> Tenths(0),
     success_rate         |-> Tenths(0),
     simulation_duration  |-> Tenths(0)]

\* the value of `result` while nothing has been returned
NoResult == ZeroResult

\* the value of `locals` while line 332 has not been reached
NoLocals ==
    [customer_col          |-> <<>>,
     total_customers       |-> Rat(0, 1),
     initial_battery_count |-> Rat(0, 1),
     min_battery_count     |-> Rat(0, 1),
     avg_battery_count     |-> Rat(0, 1),
     first_hour_customers  |-> Rat(0, 1),
     simulation_duration   |-> Rat(0, 1),
     avg_service_interval  |-> Rat(0, 1),
     peak_hour_customers   |-> 0,
     battery_utilization   |-> Rat(0, 1),
     success_rate          |-> Rat(0, 1)]

\* lines 236-330: the locals when line 332 is reached (total is the
\* number total_customers holds)
Locals(d, cc, total, first_hour, st, bt) ==
    LET el      == elapsed(d)
        initial == initial_battery_count(d)
        minimum == min_battery_count(d)
    IN  [customer_col          |-> cc,
         total_customers       |-> total,
         initial_battery_count |-> initial,
         min_battery_count     |-> minimum,
         avg_battery_count     |-> avg_battery_count(d),
         first_hour_customers  |-> first_hour,
         simulation_duration   |-> simulation_duration(el),
         avg_service_interval  |-> avg_service_interval(el, total),
         peak_hour_customers   |-> peak_hour_customers(total),
         battery_utilization   |-> battery_utilization(initial, minimum),
         success_rate          |-> success_rate(d, total)]

\* lines 332-341: the dictionaries the return statement can build
Results(loc) ==
    {[total_customers      |-> Trunc(loc.total_customers),
      avg_battery_count    |-> a,
      first_hour_customers |-> Trunc(loc.first_hour_customers),
      battery_utilization  |-> u,
      peak_hour_customers  |-> loc.peak_hour_customers,
      avg_service_interval |-> i,
      success_rate         |-> r,
      simulation_duration  |-> s] :
        a \in RoundChoices(loc.avg_battery_count),
        u \in RoundChoices(loc.battery_utilization),
        i \in RoundChoices(loc.avg_service_interval),
        r \in RoundChoices(loc.success_rate),
        s \in RoundChoices(loc.simulation_duration)}

Returned(loc, res) ==
    [outcome |-> "returned", error |-> "", locals |-> loc, result |-> res]

Raised(err, loc) ==
    [outcome |-> "raised", error |-> err, locals |-> loc, result |-> NoResult]

\* lines 152-341: every way the call calculate_kpis_from_data(d0, st, bt)
\* can end.  A str total raises TypeError at line 314; a NaN
\* first_hour_customers raises ValueError at line 335.
Outcomes(d0, st, bt) ==
    IF d0.none \/ Empty(d0) THEN {Returned(NoLocals, ZeroResult)}
    ELSE LET d          == StripColumns(d0)
             cc         == customer_col(d)
             total      == total_customers(d, cc, st, bt)
             first_hour == first_hour_customers(d, cc, st, bt)
             loc        == Locals(d, cc, total.v, first_hour, st, bt)
         IN  IF total.str THEN {Raised("TypeError", NoLocals)}
             ELSE IF first_hour.nan THEN {Raised("ValueError", loc)}
             ELSE {Returned(loc, res) : res \in Results(loc)}

----------------------------------------------------------------------------
(* File names: get_file_mapping and get_graph_filename.                    *)

\* the first option of each selectbox (lines 415 and 425)
SelectStation == "Select Station Type..."
SelectBattery == "Select Battery Type..."

\* the characters of the station and battery labels of get_file_mapping and
\* of the two selectbox placeholders
Text ==
    Ind1 :>
        <<"1"," ","I","n","d","e","p","e","n","d","e","n","t"," ","S","t","a","t","i","o","n"," ","(","1","5"," ","d","o","c","k","s",","," ","1","4"," ","b","a","t","t","e","r","i","e","s",")">> @@
    Ind2 :>
        <<"2"," ","I","n","d","e","p","e","n","d","e","n","t"," ","S","t","a","t","i","o","n","s"," ","(","3","0"," ","d","o","c","k","s",","," ","2","8"," ","b","a","t","t","e","r","i","e","s",")">> @@
    Ind3 :>
        <<"3"," ","I","n","d","e","p","e","n","d","e","n","t"," ","S","t","a","t","i","o","n","s"," ","(","4","5"," ","d","o","c","k","s",","," ","4","2"," ","b","a","t","t","e","r","i","e","s",")">> @@
    Clu2 :>
        <<"2"," ","C","l","u","s","t","e","r","e","d"," ","S","t","a","t","i","o","n","s"," ","(","3","0"," ","d","o","c","k","s",","," ","2","9"," ","b","a","t","t","e","r","i","e","s",")">> @@
    Clu3 :>
        <<"3"," ","C","l","u","s","t","e","r","e","d"," ","S","t","a","t","i","o","n","s"," ","(","4","5"," ","d","o","c","k","s",","," ","4","4"," ","b","a","t","t","e","r","i","e","s",")">> @@
    "1 BP" :> <<"1"," ","B","P">> @@
    "2 BP" :> <<"2"," ","B","P">> @@
    "3 BP" :> <<"3"," ","B","P">> @@
    "3 BP Mix" :> <<"3"," ","B","P"," ","M","i","x">> @@
    SelectStation :>
        <<"S","e","l","e","c","t"," ","S","t","a","t","i","o","n"," ","T","y","p","e",".",".",".">> @@
    SelectBattery :>
        <<"S","e","l","e","c","t"," ","B","a","t","t","e","r","y"," ","T","y","p","e",".",".",".">>

\* get_file_mapping(): station type -> battery type -> log file name
file_mapping ==
    (Ind1 :>
            ("1 BP" :> "Battery Simulation Logs - 1 INT - 1 BP.csv" @@
              "2 BP" :> "Battery Simulation Logs - 1 INT - 2 BP.csv" @@
              "3 BP" :> "Battery Simulation Logs - 1 INT - 3 BP.csv" @@
              "3 BP Mix" :> "Battery Simulation Logs - 1 INT - MIX 3 BP.csv")) @@
    (Ind2 :>
            ("1 BP" :> "Battery Simulation Logs - 2 INT - 1 BP.csv" @@
              "2 BP" :> "Battery Simulation Logs - 2 INT - 2 BP.csv" @@
              "3 BP" :> "Battery Simulation Logs - 2 INT - 3 BP.csv" @@
              "3 BP Mix" :> "Battery Simulation Logs - 2 INT - MIX 3 BP.csv")) @@
    (Ind3 :>
            ("1 BP" :> "Battery Simulation Logs - 3 INT - 1 BP.csv" @@
              "2 BP" :> "Battery Simulation Logs - 3 INT - 2 BP.csv" @@
              "3 BP" :> "Battery Simulation Logs - 3 INT - 3 BP.csv" @@
              "3 BP Mix" :> "Battery Simulation Logs - 3 INT - MIX 3 BP.csv")) @@
    (Clu2 :>
            ("1 BP" :> "Battery Simulation Logs - 2 CLU - 1 BP.csv" @@
              "2 BP" :> "Battery Simulation Logs - 2 CLU - 2 BP.csv" @@
              "3 BP" :> "Battery Simulation Logs - 2 CLU - 3 BP.csv" @@
              "3 BP Mix" :> "Battery Simulation Logs - 2 CLU - MIX 3 BP.csv")) @@
    (Clu3 :>
            ("1 BP" :> "Battery Simulation Logs - 3 CLU - 1 BP.csv" @@
              "2 BP" :> "Battery Simulation Logs - 3 CLU - 2 BP.csv" @@
              "3 BP" :> "Battery Simulation Logs - 3 CLU - 3 BP.csv" @@
              "3 BP Mix" :> "Battery Simulation Logs - 3 CLU - MIX 3 BP.csv"))

station_types == DOMAIN file_mapping

battery_types(station) == DOMAIN file_mapping[station]

\* str.split() with no argument: the runs of non-whitespace characters
RECURSIVE SplitWhitespace(_)
SplitWhitespace(s) ==
    LET t == LStrip(s)
    IN  IF t = <<>> THEN <<>>
        ELSE LET ends == {i \in 1..Len(t) : IsSpace(t[i])}
                 n == IF ends = {} THEN Len(t) + 1
                      ELSE CHOOSE i \in ends : \A j \in ends : i <= j
             IN  <<SubSeq(t, 1, n - 1)>> \o SplitWhitespace(SubSeq(t, n, Len(t)))

Independent == <<"I","n","d","e","p","e","n","d","e","n","t">>
OneIndependentStation == <<"1"," ","I","n","d","e","p","e","n","d","e","n","t"," ","S","t","a","t","i","o","n">>
IndependentStations == <<" ","I","n","d","e","p","e","n","d","e","n","t"," ","S","t","a","t","i","o","n","s">>
ClusteredStations == <<" ","C","l","u","s","t","e","r","e","d"," ","S","t","a","t","i","o","n","s">>
ThreeBPMix == <<"3"," ","B","P"," ","M","i","x">>
PngSuffix == <<")",".","p","n","g">>

\* Faulty variant: every independent configuration named in the plural
get_graph_filename_plural(station_type_, battery_type_) ==
    LET station_num == SplitWhitespace(station_type_)[1]
        station_name ==
            IF Contains(station_type_, Independent)
            THEN station_num \o IndependentStations
            ELSE station_num \o ClusteredStations
    IN  station_name \o <<" ", "(">> \o battery_type_ \o PngSuffix

\* get_graph_filename(station_type, battery_type), lines 59-82, on the
\* characters of its arguments
get_graph_filename(station_type_, battery_type_) ==
    LET station_num == SplitWhitespace(station_type_)[1]
        station_name ==
            IF Contains(station_type_, Independent)
            THEN IF station_num = <<"1">>
                 THEN OneIndependentStation
                 ELSE station_num \o IndependentStations
            ELSE station_num \o ClusteredStations
        battery_name ==
            IF battery_type_ = ThreeBPMix THEN ThreeBPMix ELSE battery_type_
    IN  station_name \o <<" ", "(">> \o battery_name \o PngSuffix

----------------------------------------------------------------------------
(* The inputs: what load_csv_data can hand over, within bounds.            *)

MaxRows == 2

\* the 20 pairs main() can select, and two pairs outside the tables: a
\* battery the station's table lacks, and a station the tables lack
KnownPairs ==
    {<<s, b>> : s \in DOMAIN known_totals, b \in {"1 BP", "2 BP", "3 BP", "3 BP Mix"}}

UnknownPairs == {<<Ind1, "4 BP">>, <<"Custom Station", "1 BP">>}

Pairs == KnownPairs \cup UnknownPairs

TimeCells ==
    {StrCell(T0700), StrCell(T2300), StrCell(T2330), StrCell(T0015),
     StrCell(TBad), NaCell}

CountCells == {NaCell, IntCell(0), IntCell(3), IntCell(14)}

BatteryCells == {StrCell(DashSentinel), StrCell(BatteryToken)}

Headers ==
    {<<>>,
     <<TimeName>>,
     <<TimeName, CustomersServed>>,
     <<TotalCustomersPadded, BatteriesTakenName>>,
     <<BatteriesTakenName, ServedName>>,
     <<CustomersServed, TotalCustomersPadded>>,
     <<BPCountName>>,
     <<BPCountPadded>>}

CellsOf(name) ==
    IF Strip(name) = TimeName THEN TimeCells
    ELSE IF Strip(name) = BatteriesTakenName THEN BatteryCells
    ELSE CountCells

RECURSIVE ColumnsOf(_, _)
ColumnsOf(names, n) ==
    IF names = <<>> THEN {<<>>}
    ELSE {<<c>> \o rest : c \in [1..n -> CellsOf(Head(names))],
                          rest \in ColumnsOf(Tail(names), n)}

\* d is None or a frame of at most MaxRows rows under one of the headers
IsDataFrame(d) ==
    \/ d = NoneFrame
    \/ \E h \in Headers : \E n \in 0..MaxRows :
          \E cols \in ColumnsOf(h, n) : d = Frame(h, cols, n)

----------------------------------------------------------------------------

\* a page on which no file name and no table has been put
BlankPage(screen, button) ==
    [screen             |-> screen,
     button             |-> button,
     csv_filename       |-> "",
     first_hour_filename |-> <<>>,
     customers_filename |-> <<>>,
     loaded             |-> NoneFrame,
     load_error         |-> "",
     dataframe          |-> NoneFrame]

Preview == "Preview (First 20 rows)"
FullDataset == "Full Dataset"

\* python's None as a value of st.session_state.current_config
None == <<"None">>

\* a session before the script has run: the widgets hold their first
\* option, and lines 382-385 give the two session keys these values before
\* anything reads them
NewSession ==
    /\ station_select = SelectStation
    /\ battery_select = SelectBattery
    /\ display_mode = Preview
    /\ simulation_run = FALSE
    /\ current_config = None
    /\ status_text = <<>>
    /\ progress_bar = <<>>
    /\ page = BlankPage("none", "none")

\* the record set as the call leaves it: line 237 assigns the stripped
\* names to df.columns of the caller's frame; the early return of lines
\* 156-166 comes before it
df_after_call(d) == IF d.none \/ Empty(d) THEN d ELSE StripColumns(d)

Init ==
    /\ NewSession
    /\ IsDataFrame(df)
    /\ \E p \in Pairs : station_type = p[1] /\ battery_type = p[2]
    /\ pc = "ready"
    /\ outcome = "none"
    /\ error = ""
    /\ locals = NoLocals
    /\ result = NoResult

\* one call of calculate_kpis_from_data(df, station_type, battery_type)
calculate_kpis_from_data ==
    /\ pc = "ready"
    /\ \E o \in Outcomes(df, station_type, battery_type) :
          /\ outcome' = o.outcome
          /\ error' = o.error
          /\ locals' = o.locals
          /\ result' = o.result
    /\ df' = df_after_call(df)
    /\ pc' = "done"
    /\ UNCHANGED <<station_type, battery_type>>
    /\ UNCHANGED session

Next == calculate_kpis_from_data

Spec == Init /\ [][Next]_vars

----------------------------------------------------------------------------
(* main(): one Streamlit session.                                          *)

\* the texts of simulate_backend_processing, lines 126-137, without their
\* leading pictographs
steps ==
    <<"Initializing simulation environment...",
      "Loading station configuration...",
      "Setting up battery parameters...",
      "Generating customer arrival patterns...",
      "Simulating vehicle interactions...",
      "Processing simulation data...",
      "Generating performance metrics...",
      "Calculating KPIs...",
      "Creating data logs...",
      "Simulation complete!">>

ReadyText == "Ready to display results!"

\* what read_csv can make of a log file: a table with a padded column name,
\* a table of two rows, a table with a header and no rows
LoadedFrames ==
    {Frame(<<BPCountPadded>>, <<<<IntCell(14)>>>>, 1),
     Frame(<<TimeName, CustomersServed>>,
           <<<<StrCell(T0700), StrCell(T2300)>>, <<IntCell(0), IntCell(14)>>>>, 2),
     Frame(<<TotalCustomersPadded>>, <<<<>>>>, 0)}

\* load_csv_data(file_path), lines 84-103: the pairs (df, error) it returns
load_csv_data ==
    {<<d, "">> : d \in LoadedFrames}
        \cup {<<NoneFrame, e>> :
                e \in {"Unable to decode file with any standard encoding",
                       "File not found",
                       "Error loading file"}}

\* line 488: the loader is called only for a path that exists
Loads == load_csv_data \cup {<<NoneFrame, "File not found">>}

\* df.head(n)
head(d, n) ==
    LET m == IF d.nrows < n THEN d.nrows ELSE n
    IN  [d EXCEPT !.nrows = m,
                  !.data = [i \in 1..Len(d.data) |-> SubSeq(d.data[i], 1, m)]]

\* line 447: f"{selected_station}|{selected_battery}"
ConfigOf(selected_station, selected_battery) ==
    Text[selected_station] \o <<"|">> \o Text[selected_battery]

\* Faulty variant: the flag survives a change of configuration
simulation_run_kept(config) == simulation_run

\* lines 448-450: simulation_run as the comparison with current_config leaves it
simulation_run_checked(config) ==
    IF current_config # config THEN FALSE ELSE simulation_run

\* Faulty variant: the loop left after its first step
loop_finished_after_first_step == Len(status_text) >= 1

\* line 142: the for loop over steps has run out
loop_finished == Len(status_text) = Len(steps)

\* calculate_kpis_from_data has not been called
NotCalled ==
    /\ df = NoneFrame
    /\ station_type = SelectStation
    /\ battery_type = SelectBattery
    /\ outcome = "none"
    /\ error = ""
    /\ locals = NoLocals
    /\ result = NoResult

\* a script run that does not call calculate_kpis_from_data
NoCall ==
    /\ df' = NoneFrame
    /\ station_type' = SelectStation
    /\ battery_type' = SelectBattery
    /\ outcome' = "none"
    /\ error' = ""
    /\ locals' = NoLocals
    /\ result' = NoResult

\* a widget the script run did not reach: Streamlit may keep or drop its state
Unrendered(value, first) == {value, first}

\* the page with the three file names of the configuration on it
NamedPage(screen, button, selected_station, selected_battery) ==
    [BlankPage(screen, button) EXCEPT
        !.csv_filename = file_mapping[selected_station][selected_battery],
        !.first_hour_filename =
            get_graph_filename(Text[selected_station], Text[selected_battery]),
        !.customers_filename =
            get_graph_filename(Text[selected_station], Text[selected_battery])]

\* lines 395-404: a folder is missing; the script returns at line 404
MissingFolders(station, battery, mode) ==
    /\ page' = BlankPage("missing folders", "none")
    /\ station_select' \in Unrendered(station, SelectStation)
    /\ battery_select' \in Unrendered(battery, SelectBattery)
    /\ display_mode' \in Unrendered(mode, Preview)
    /\ UNCHANGED <<simulation_run, current_config>>
    /\ status_text' = <<>> /\ progress_bar' = <<>>
    /\ pc' = "waiting"
    /\ NoCall

\* lines 611-640: the welcome screen
Welcome(mode) ==
    /\ page' = BlankPage("welcome", "none")
    /\ display_mode' \in Unrendered(mode, Preview)
    /\ status_text' = <<>> /\ progress_bar' = <<>>
    /\ pc' = "waiting"
    /\ NoCall

\* lines 464-469: RUN SIMULATION returned True; the script is inside
\* simulate_backend_processing, past st.progress(0) and st.empty()
StartSimulation(mode) ==
    /\ page' = BlankPage("running", "run")
    /\ display_mode' \in Unrendered(mode, Preview)
    /\ status_text' = <<>>
    /\ progress_bar' = <<Rat(0, 1)>>
    /\ pc' = "simulating"
    /\ NoCall

\* lines 476-479: RE-RUN SIMULATION returned True; st.rerun() ends the run
RequestRerun(mode) ==
    /\ page' = BlankPage("rerun", "rerun")
    /\ display_mode' \in Unrendered(mode, Preview)
    /\ status_text' = <<>> /\ progress_bar' = <<>>
    /\ pc' = "rerun"
    /\ NoCall

\* lines 556-609: the pre-simulation screen
PreSimulation(selected_station, selected_battery, mode) ==
    /\ page' = NamedPage("pre", "none", selected_station, selected_battery)
    /\ display_mode' \in Unrendered(mode, Preview)
    /\ status_text' = <<>> /\ progress_bar' = <<>>
    /\ pc' = "waiting"
    /\ NoCall

\* lines 482-554: the results section.  Whether a graph file exists decides
\* only between its image and a warning.
ShowResults(selected_station, selected_battery, mode) ==
    /\ status_text' = <<>> /\ progress_bar' = <<>>
    /\ pc' = "waiting"
    /\ \E ld \in Loads :
          IF ld[1].none
          THEN /\ page' = [NamedPage("results", "none", selected_station,
                                     selected_battery)
                              EXCEPT !.load_error = ld[2]]
               /\ display_mode' \in Unrendered(mode, Preview)
               /\ NoCall
          ELSE \E o \in Outcomes(ld[1], selected_station, selected_battery) :
                  /\ df' = df_after_call(ld[1])
                  /\ station_type' = selected_station
                  /\ battery_type' = selected_battery
                  /\ outcome' = o.outcome
                  /\ error' = o.error
                  /\ locals' = o.locals
                  /\ result' = o.result
                  /\ IF o.outcome = "raised"
                     THEN /\ page' = [BlankPage("exception", "none")
                                         EXCEPT !.loaded = ld[1]]
                          /\ display_mode' \in Unrendered(mode, Preview)
                     ELSE /\ page' =
                               [NamedPage("results", "none", selected_station,
                                          selected_battery)
                                   EXCEPT !.loaded = ld[1],
                                          !.dataframe =
                                              IF mode = Preview
                                              THEN head(df_after_call(ld[1]), 20)
                                              ELSE df_after_call(ld[1])]
                          /\ display_mode' = mode

\* lines 454-609: the main content for a selected station and battery
Content(selected_station, selected_battery, mode, click, run) ==
    IF ~run
    THEN /\ simulation_run' = FALSE
         /\ IF click = "run"
            THEN StartSimulation(mode)
            ELSE PreSimulation(selected_station, selected_battery, mode)
    ELSE IF click = "rerun"
         THEN /\ simulation_run' = FALSE
              /\ RequestRerun(mode)
         ELSE /\ simulation_run' = TRUE
              /\ ShowResults(selected_station, selected_battery, mode)

\* one run of the script main(), lines 373-640, for the widget values the
\* browser sent and the button that was clicked ("none", "run", "rerun")
main(station, battery, mode, click) ==
    \E missing_folders \in BOOLEAN :
        IF missing_folders
        THEN MissingFolders(station, battery, mode)
        ELSE LET selected_station == station
                 selected_battery ==
                     IF selected_station # SelectStation
                     THEN battery ELSE SelectBattery
                 config == ConfigOf(selected_station, selected_battery)
                 run == simulation_run_checked(config)
             IN  /\ station_select' = station
                 /\ battery_select' \in
                        IF selected_station # SelectStation
                        THEN {battery}
                        ELSE Unrendered(battery, SelectBattery)
                 /\ current_config' = config
                 /\ IF selected_station # SelectStation
                       /\ selected_battery # SelectBattery
                    THEN Content(selected_station, selected_battery, mode,
                                 click, run)
                    ELSE /\ simulation_run' = run
                         /\ Welcome(mode)

\* the sidebar of the latest run is on the page
SidebarShown == page.screen \notin {"none", "missing folders"}

\* A request is what the browser sends to start a script run: the values
\* of the three widgets and the button that was clicked.
Request(station, battery, mode, click) ==
    [station |-> station, battery |-> battery, mode |-> mode, click |-> click]

\* the session's first run, a run asked for by st.rerun(), or a rerun asked
\* for from the app menu
rerun == {Request(station_select, battery_select, display_mode, "none")}

\* the user picks another option of "Choose Station Configuration:"
select_station ==
    IF SidebarShown
    THEN {Request(s, battery_select, display_mode, "none") :
            s \in (station_types \cup {SelectStation}) \ {station_select}}
    ELSE {}

\* the user picks another option of "Choose Battery Pack Type:"
select_battery ==
    IF SidebarShown /\ station_select # SelectStation
    THEN {Request(station_select, b, display_mode, "none") :
            b \in (battery_types(station_select) \cup {SelectBattery})
                      \ {battery_select}}
    ELSE {}

\* the user picks the other option of "Display Mode:"
select_display_mode ==
    IF page.screen = "results" /\ ~page.loaded.none
    THEN {Request(station_select, battery_select, m, "none") :
            m \in {Preview, FullDataset} \ {display_mode}}
    ELSE {}

\* the user clicks RUN SIMULATION
click_run ==
    IF page.screen \in {"pre", "running"}
    THEN {Request(station_select, battery_select, display_mode, "run")}
    ELSE {}

\* the user clicks RE-RUN SIMULATION
click_rerun ==
    IF page.screen = "results"
    THEN {Request(station_select, battery_select, display_mode, "rerun")}
    ELSE {}

\* a script run of main() for any request the page allows; a request that
\* arrives during simulate_backend_processing ends that run
script_run ==
    \E r \in rerun \cup select_station \cup select_battery
                \cup select_display_mode \cup click_run \cup click_rerun :
        main(r.station, r.battery, r.mode, r.click)

\* lines 142-147: one turn of the loop of simulate_backend_processing
simulate_step ==
    /\ pc = "simulating"
    /\ ~loop_finished
    /\ LET i == Len(status_text)
       IN  /\ status_text' = Append(status_text, steps[i + 1])
           /\ progress_bar' = Append(progress_bar, Rat(i + 1, Len(steps)))
    /\ UNCHANGED <<call, pc, station_select, battery_select, display_mode,
                   simulation_run, current_config, page>>

\* lines 149-150 and 471-473: the loop is over; the flag is set and
\* st.rerun() ends the run
simulation_complete ==
    /\ pc = "simulating"
    /\ loop_finished
    /\ status_text' = Append(status_text, ReadyText)
    /\ simulation_run' = TRUE
    /\ pc' = "rerun"
    /\ UNCHANGED <<call, station_select, battery_select, display_mode,
                   current_config, progress_bar, page>>

MainInit ==
    /\ NewSession
    /\ NotCalled
    /\ pc = "rerun"

MainNext ==
    \/ script_run
    \/ simulate_step
    \/ simulation_complete

MainSpec == MainInit /\ [][MainNext]_vars



----------------------------------------------------------------------------
(* Properties.                                                             *)

Done == pc = "done"

\* the record set is neither absent nor empty
NonEmptyInput == ~df.none /\ ~Empty(df)

\* the call ran to its return statement and returned
ReturnedFromBody == Done /\ NonEmptyInput /\ outcome = "returned"

Known == InTable(known_totals, station_type, battery_type)

\* C1: for each of the 20 known pairs and any non-empty record set the call
\* returns, and total_customers and first_hour_customers are the literal
\* values of known_totals and known_fha, whatever the records hold.
C1_KnownPairsUseTables ==
    (Done /\ NonEmptyInput /\ Known) =>
        /\ outcome = "returned"
        /\ result.total_customers = known_totals[station_type][battery_type]
        /\ result.first_hour_customers = known_fha[station_type][battery_type]

\* a known pair whose records say 14 customers, 11 of them in hour 7,
\* answered with the tables' 307 and 29
C1_Witness ==
    /\ Done /\ outcome = "returned"
    /\ station_type = Clu2 /\ battery_type = "1 BP"
    /\ df.columns = <<TimeName, CustomersServed>>
    /\ df.data[1] = <<StrCell(T0700), StrCell(T0700)>>
    /\ df.data[2] = <<IntCell(3), IntCell(14)>>
    /\ result.total_customers = 307
    /\ result.first_hour_customers = 29

\* C2: for an empty or absent record set the call returns a result whose
\* eight fields are all zero, for every pair.
C2_EmptyInputAllZero ==
    (Done /\ ~NonEmptyInput) =>
        /\ outcome = "returned"
        /\ result = [total_customers      |-> 0,
                     avg_battery_count    |-> Tenths(0),
                     first_hour_customers |-> 0,
                     battery_utilization  |-> Tenths(0),
                     peak_hour_customers  |-> 0,
                     avg_service_interval |-> Tenths(0),
                     success_rate         |-> Tenths(0),
                     simulation_duration  |-> Tenths(0)]

\* a known pair called with a frame that has columns and no rows
C2_Witness ==
    /\ Done /\ outcome = "returned"
    /\ ~df.none /\ df.nrows = 0 /\ df.columns = <<TimeName, CustomersServed>>
    /\ station_type = Ind1 /\ battery_type = "1 BP"
    /\ result.total_customers = 0 /\ result.simulation_duration = Tenths(0)

\* C3 (as claimed): the call never raises; every call returns a result.
C3_NeverRaises == Done => outcome = "returned"

\* C4 (as claimed): in every result returned,
\* peak_hour_customers = max(1, floor(total_customers * 0.15)).
C4_PeakHourEveryResult ==
    (Done /\ outcome = "returned" /\ result.total_customers >= 0) =>
        result.peak_hour_customers =
            (IF (result.total_customers * 15) \div 100 > 1
             THEN (result.total_customers * 15) \div 100 ELSE 1)

\* C4 (amended): in every result returned for a non-empty record set,
\* peak_hour_customers = max(1, floor(total_customers * 0.15)); the result
\* for an empty or absent record set has peak_hour_customers = 0.
C4_PeakHour ==
    (Done /\ outcome = "returned" /\ result.total_customers >= 0) =>
        result.peak_hour_customers =
            (IF ~NonEmptyInput THEN 0
             ELSE IF (result.total_customers * 15) \div 100 > 1
             THEN (result.total_customers * 15) \div 100 ELSE 1)

\* a non-empty record set whose total is 0 gets a peak of 1
C4_Witness ==
    /\ ReturnedFromBody
    /\ ~Known
    /\ result.total_customers = 0
    /\ result.peak_hour_customers = 1

\* line 332 was reached: the locals hold the values the return statement
\* reads (the call then returns, or int() of a NaN raises ValueError)
ReachedReturn == Done /\ NonEmptyInput /\ error # "TypeError"

\* the Time strings of the model that are H:MM:SS, and their minute of the
\* day, written out
ClockMinutes(c) ==
    CASE c.s = T0700 -> 420
      [] c.s = T2300 -> 1380
      [] c.s = T2330 -> 1410
      [] c.s = T0015 -> 15

IsClock(c) == c.k = "str" /\ c.s \in {T0700, T2300, T2330, T0015}

\* first and last Time value exist and are H:MM:SS
Timed ==
    /\ HasColumn(df, TimeName)
    /\ df.nrows >= 2
    /\ IsClock(Column(df, TimeName)[1])
    /\ IsClock(Column(df, TimeName)[df.nrows])

\* last - first in minutes, plus 1440 exactly when negative
ElapsedMinutes ==
    LET diff == ClockMinutes(Column(df, TimeName)[df.nrows])
                  - ClockMinutes(Column(df, TimeName)[1])
    IN  IF diff < 0 THEN diff + 1440 ELSE diff

TotalForInterval ==
    IF Known THEN known_totals[station_type][battery_type]
    ELSE result.total_customers

\* C6: avg_service_interval is elapsed minutes / total_customers when the
\* first and last Time values parse, there are at least 2 rows and
\* total_customers > 0, and exactly 6.0 in every other case.  The dictionary
\* holds that value rounded to one decimal.
C6_ServiceInterval ==
    ReturnedFromBody =>
        LET expected == IF Timed /\ TotalForInterval > 0
                        THEN Rat(ElapsedMinutes, TotalForInterval)
                        ELSE Rat(6, 1)
        IN  /\ locals.avg_service_interval = expected
            /\ result.avg_service_interval \in RoundChoices(expected)

\* 7:00:00 to 23:00:00 over the table's 154 customers: 960 / 154 minutes
C6_Witness ==
    /\ ReturnedFromBody
    /\ station_type = Ind1 /\ battery_type = "1 BP"
    /\ HasColumn(df, TimeName)
    /\ Column(df, TimeName) = <<StrCell(T0700), StrCell(T2300)>>
    /\ locals.avg_service_interval = Rat(960, 154)
    /\ result.avg_service_interval = Tenths(62)

\* the rows whose 'Batteries Taken' value differs from '-'
ServicesTaken ==
    Cardinality({i \in 1..df.nrows :
                    Column(df, BatteriesTakenName)[i] # StrCell(DashSentinel)})

\* C7 (as claimed): without a 'Batteries Taken' column success_rate is 98.5;
\* with one, success_rate = (rows differing from '-') / total_customers * 100,
\* total_customers being the value in the same result.
C7_SuccessRateWheneverPresent ==
    ReturnedFromBody =>
        IF ~HasColumn(df, BatteriesTakenName)
        THEN locals.success_rate = Rat(197, 2)
        ELSE locals.success_rate.n * result.total_customers
                 = 100 * ServicesTaken * locals.success_rate.d

\* C7 (amended): without a 'Batteries Taken' column success_rate is 98.5;
\* with one, it is (rows differing from '-') / total_customers * 100 when
\* total_customers > 0 and stays 98.5 when total_customers is not positive.
\* The dictionary holds that value rounded to one decimal.
C7_SuccessRate ==
    ReturnedFromBody =>
        LET expected ==
                IF HasColumn(df, BatteriesTakenName) /\ result.total_customers > 0
                THEN Rat(100 * ServicesTaken, result.total_customers)
                ELSE Rat(197, 2)
        IN  /\ locals.success_rate = expected
            /\ result.success_rate \in RoundChoices(expected)

\* one of two rows took a battery, out of a computed total of 3
C7_Witness ==
    /\ ReturnedFromBody
    /\ ~Known
    /\ df.columns = <<BatteriesTakenName, ServedName>>
    /\ df.data[1] = <<StrCell(DashSentinel), StrCell(BatteryToken)>>
    /\ result.total_customers = 3
    /\ locals.success_rate = Rat(100, 3)
    /\ result.success_rate = Tenths(333)

\* C8: battery_utilization is (initial - min) / initial * 100 when
\* initial > 0 and 85.0 otherwise, initial being the first 'BP Count' value
\* and min the smallest; without a 'BP Count' column initial = 14, min = 0,
\* avg = 7, so avg_battery_count = 7 and battery_utilization = 100.0.  The
\* dictionary holds these values rounded to one decimal.
C8_BatteryUtilization ==
    ReachedReturn =>
        IF ~HasColumn(df, BPCountName)
        THEN /\ locals.avg_battery_count = Rat(7, 1)
             /\ locals.battery_utilization = Rat(100, 1)
             /\ outcome = "returned" =>
                    /\ result.avg_battery_count = Tenths(70)
                    /\ result.battery_utilization = Tenths(1000)
        ELSE LET bp       == Column(df, BPCountName)
                 initial  == bp[1]
                 smallest == CHOOSE v \in Values(bp) : \A w \in Values(bp) : v <= w
                 expected == IF initial.k = "int" /\ initial.n > 0
                             THEN Rat((initial.n - smallest) * 100, initial.n)
                             ELSE Rat(85, 1)
             IN  /\ locals.battery_utilization = expected
                 /\ outcome = "returned" =>
                        result.battery_utilization \in RoundChoices(expected)

\* 14 packs at the start, 3 at the lowest: (14 - 3) / 14 = 78.6 %
C8_Witness ==
    /\ ReturnedFromBody
    /\ df.columns = <<BPCountName>>
    /\ df.data[1] = <<IntCell(14), IntCell(3)>>
    /\ locals.battery_utilization = Rat(1100, 14)
    /\ result.battery_utilization = Tenths(786)

\* some column is named for customers
HasCustomersColumn ==
    \E i \in 1..Len(df.columns) : Contains(Lower(df.columns[i]), CustomersNeedle)

\* the column the claims call the customer-count column
ClaimedCustomerColumn ==
    LET hit == {i \in 1..Len(df.columns) :
                   Contains(Lower(df.columns[i]), CustomersNeedle)}
    IN  IF hit # {} THEN df.data[CHOOSE i \in hit : \A j \in hit : i <= j]
        ELSE df.data[Len(df.columns)]

\* the customer counts of the records whose Time starts with '7:'
HourSevenCounts ==
    {ClaimedCustomerColumn[i].n :
        i \in {j \in 1..df.nrows :
                  /\ Column(df, TimeName)[j].k = "str"
                  /\ StartsWith(Column(df, TimeName)[j].s, <<"7", ":">>)
                  /\ ClaimedCustomerColumn[j].k = "int"}}

\* C9 (as claimed, for record sets with a customers column): for a pair
\* outside the tables the call returns first_hour_customers = max - min of
\* the customer column over the hour-7 records, and floor(record count / 16)
\* on a missing Time column, an empty hour-7 selection or any failure.
C9_FirstHourFallback ==
    (Done /\ NonEmptyInput /\ ~Known /\ HasCustomersColumn) =>
        /\ outcome = "returned"
        /\ result.first_hour_customers =
               (IF HasColumn(df, TimeName) /\ HourSevenCounts # {}
                THEN (CHOOSE v \in HourSevenCounts : \A w \in HourSevenCounts : w <= v)
                     - (CHOOSE v \in HourSevenCounts : \A w \in HourSevenCounts : v <= w)
                ELSE df.nrows \div 16)

\* C10: for a pair outside the tables, total_customers is the maximum of the
\* customer-count column, or the record count when that column holds only
\* missing values; the column is the first whose stripped name contains
\* 'customers' case-insensitively, and the last column when none does.
C10_TotalFallback ==
    (ReturnedFromBody /\ ~Known) =>
        result.total_customers =
            (IF AllNa(ClaimedCustomerColumn) THEN df.nrows
             ELSE CHOOSE v \in Values(ClaimedCustomerColumn) :
                      \A w \in Values(ClaimedCustomerColumn) : w <= v)

\* two customers columns: the first one's maximum is the total
C10_Witness ==
    /\ ReturnedFromBody
    /\ ~Known
    /\ df.columns = <<CustomersServed, Strip(TotalCustomersPadded)>>
    /\ df.data[1] = <<IntCell(0), IntCell(3)>>
    /\ df.data[2] = <<IntCell(14), NaCell>>
    /\ locals.customer_col = CustomersServed
    /\ result.total_customers = 3

\* the results section of the latest run is on the page
ResultsShown == page.screen = "results"

\* the table the results section shows for the table t and the display mode
Displayed(t) == IF display_mode = Preview THEN head(t, 20) ELSE t

\* C11 (as claimed): a call of calculate_kpis_from_data leaves the supplied
\* record set as it was, column names and rows, so the table main() shows
\* after the call is the table the loader returned.
C11_RecordSetUnchanged ==
    (ResultsShown /\ outcome = "returned") =>
        /\ df = page.loaded
        /\ page.dataframe = Displayed(page.loaded)

\* the file names of the selected configuration are on the page
NamesShown == page.screen \in {"pre", "results"}

\* the pairs main() can select
SelectablePairs == {<<s, b>> : s \in {Ind1, Ind2, Ind3, Clu2, Clu3},
                               b \in {"1 BP", "2 BP", "3 BP", "3 BP Mix"}}

\* the number N a station configuration starts with, and its kind
StationNumber == (Ind1 :> "1") @@ (Ind2 :> "2") @@ (Ind3 :> "3")
                     @@ (Clu2 :> "2") @@ (Clu3 :> "3")

IsIndependentStation(s) == s \in {Ind1, Ind2, Ind3}

\* the graph file name the claim gives for a pair
ClaimedGraphName(s, b) ==
    <<StationNumber[s]>>
        \o (IF IsIndependentStation(s)
            THEN IF StationNumber[s] = "1"
                 THEN <<" ","I","n","d","e","p","e","n","d","e","n","t"," ","S","t","a","t","i","o","n">>
                 ELSE <<" ","I","n","d","e","p","e","n","d","e","n","t"," ","S","t","a","t","i","o","n","s">>
            ELSE <<" ","C","l","u","s","t","e","r","e","d"," ","S","t","a","t","i","o","n","s">>)
        \o <<" ", "(">> \o Text[b] \o <<")", ".", "p", "n", "g">>

\* C12: get_file_mapping holds one CSV name for each of the 5 x 4 pairs;
\* the graph name of a pair is '<N> Independent Station (<battery>).png'
\* for N = 1, '<N> Independent Stations (<battery>).png' for N > 1 and
\* '<N> Clustered Stations (<battery>).png' for clustered, the same for both
\* graph folders; no other pair has the CSV name or the graph name of the
\* selected pair.
C12_OneFilenamePerPair ==
    /\ {<<s, b>> : s \in station_types, b \in {"1 BP", "2 BP", "3 BP", "3 BP Mix"}}
           = SelectablePairs
    /\ \A s \in station_types :
           battery_types(s) = {"1 BP", "2 BP", "3 BP", "3 BP Mix"}
    /\ NamesShown =>
          /\ <<station_select, battery_select>> \in SelectablePairs
          /\ page.csv_filename = file_mapping[station_select][battery_select]
          /\ page.first_hour_filename =
                 ClaimedGraphName(station_select, battery_select)
          /\ page.customers_filename = page.first_hour_filename
          /\ \A p \in SelectablePairs \ {<<station_select, battery_select>>} :
                 /\ file_mapping[p[1]][p[2]] # page.csv_filename
                 /\ get_graph_filename(Text[p[1]], Text[p[2]])
                        # page.first_hour_filename

\* the results of one independent station with the mixed battery: the
\* singular graph name and the CSV name that puts MIX first
C12_Witness ==
    /\ ResultsShown
    /\ station_select = Ind1 /\ battery_select = "3 BP Mix"
    /\ page.csv_filename = "Battery Simulation Logs - 1 INT - MIX 3 BP.csv"
    /\ page.first_hour_filename =
           <<"1"," ","I","n","d","e","p","e","n","d","e","n","t"," ","S","t","a","t","i","o","n"," ","(","3"," ","B","P"," ","M","i","x",")",".","p","n","g">>
    /\ page.customers_filename = page.first_hour_filename

\* the pair the script reads from the sidebar (lines 413-432): without a
\* station there is no battery
SelectedStation == station_select

SelectedBattery ==
    IF station_select # SelectStation THEN battery_select ELSE SelectBattery

SelectedConfig == ConfigOf(SelectedStation, SelectedBattery)

\* the latest run went past the sidebar
PastSidebar == page.screen \notin {"none", "missing folders"}

\* results are on the page only for a selected station and battery, with
\* simulation_run set and current_config the selected configuration
ResultsOnlyForCurrentConfig ==
    ResultsShown =>
        /\ SelectedStation # SelectStation
        /\ SelectedBattery # SelectBattery
        /\ simulation_run
        /\ current_config = SelectedConfig

\* a run that finds another pair selected leaves simulation_run False
ChangeOfPairResets ==
    (<<SelectedStation, SelectedBattery>>' # <<SelectedStation, SelectedBattery>>
        /\ PastSidebar')
        => ~simulation_run'

\* C13: over any sequence of interactions the results section is rendered
\* only when a station and a battery are selected, simulation_run is True
\* and current_config is the selected 'station|battery'; every change of the
\* selected pair sets simulation_run to False before the main content is
\* rendered.
C13_ResultsOnlyForCurrentConfig ==
    []ResultsOnlyForCurrentConfig /\ [][ChangeOfPairResets]_vars

\* results for one configuration are on the page after results for another
\* had been: current_config followed the selection and a second simulation
\* was run
C13_Witness ==
    /\ ResultsShown
    /\ simulation_run
    /\ station_select = Clu2 /\ battery_select = "2 BP"
    /\ current_config = ConfigOf(Clu2, "2 BP")
    /\ page.csv_filename = "Battery Simulation Logs - 2 CLU - 2 BP.csv"

\* every value of the sequence is below the next one
StrictlyIncreasing(values) ==
    \A i \in 1..(Len(values) - 1) :
        Positive(RatSub(values[i + 1], values[i]))

\* the loop of simulate_backend_processing has shown every step, in order,
\* with the progress going up from 1/10 to 10/10
AllStepsShown ==
    /\ status_text = steps
    /\ Len(progress_bar) = Len(steps) + 1
    /\ progress_bar[1] = Rat(0, 1)
    /\ progress_bar[2] = Rat(1, 10)
    /\ progress_bar[Len(progress_bar)] = Rat(10, 10)
    /\ StrictlyIncreasing(progress_bar)

\* simulation_run goes from False to True only in a run started by a RUN
\* SIMULATION click, once every step has been shown
SetOnlyAfterAllSteps ==
    (~simulation_run /\ simulation_run') =>
        /\ pc = "simulating"
        /\ page.button = "run"
        /\ AllStepsShown
        /\ current_config' = current_config

\* a RE-RUN SIMULATION click clears simulation_run and keeps current_config
RerunClears ==
    (page.button # "rerun" /\ page'.button = "rerun") =>
        /\ simulation_run /\ ~simulation_run'
        /\ current_config' = current_config

\* C14: simulation_run changes from False to True only as the effect of a
\* RUN SIMULATION click, and only after simulate_backend_processing has
\* shown all 10 steps in order with the progress strictly increasing from
\* 1/10 to 10/10; a RE-RUN SIMULATION click sets simulation_run to False and
\* leaves current_config unchanged, so results are shown again only after a
\* further RUN SIMULATION click.
C14_RunSetsFlagAfterAllSteps ==
    [][SetOnlyAfterAllSteps /\ RerunClears]_vars

\* a simulation for 3 clustered stations has just shown its last step and
\* set the flag; the script is about to run again
C14_Witness ==
    /\ pc = "rerun"
    /\ simulation_run
    /\ page.button = "run"
    /\ station_select = Clu3 /\ battery_select = "3 BP"
    /\ current_config = ConfigOf(Clu3, "3 BP")
    /\ status_text = Append(steps, ReadyText)
    /\ progress_bar[Len(progress_bar)] = Rat(1, 1)

====
